---- MODULE Spec2Model ----
(***************************************************************************)
(* Conversation persistence of the finance-advisor chat backend.           *)
(*                                                                         *)
(* The store is the hosted database's two tables, `conversations` and      *)
(* `chat_messages`.  Every handler is a sequence of database calls; each   *)
(* call is one atomic step of the request that issues it, and each call    *)
(* may raise (the handlers' `except Exception` branches).                  *)
(***************************************************************************)
EXTENDS Integers, Sequences, FiniteSets, TLC

VARIABLES conversations, chat_messages, nextId, now, schema, reqs, served, prev, processes,
          AGENT_DEFINITIONS, calls

vars == <<conversations, chat_messages, nextId, now, schema, reqs, served, prev, processes,
          AGENT_DEFINITIONS, calls>>

store == <<conversations, chat_messages>>

(* the agent catalog of agents.py and the calls made so far to the functions
   that touch no table: the catalog lookup and the agents' tools *)
library == <<AGENT_DEFINITIONS, calls>>

----------------------------------------------------------------------------
(* Bounds of the model *)

MaxConvs == 2
MaxRequests == 3
WMaxTurns == 25
WMaxOther == 1
MaxToolCalls == 2
MaxLookups == 2
MaxMessageLen == 53

(* Program constants *)

HistoryLimit == 20
TitleMax == 50

----------------------------------------------------------------------------
(* Inputs *)

Reqs == {"r1", "r2"}
Users == {"alice", "bob"}
NoConv == 0
UnknownConv == MaxConvs + 1
Msgs == {<<"q">>}
Titles == {<<"t">>}
Replies == {<<"a">>}
MessageLimits == {1, 100}
MessageOffsets == {0}
Schemas == {"no_fk", "fk_restrict", "fk_cascade"}

DefaultAgent == "General Advisor"
NoDestination == "<absent>"
ChatDestinations == {"Market Analyst"}

(* the names of prompt_infos, main.py 369-414: the keys of destination_chains *)
RoutableNames ==
    {"Market Analyst", "Portfolio Manager", "Financial Planner", "Tax Optimizer",
     "Risk Manager", "Performance Chart Generator", "General Advisor"}

(* what the classification call can come back with: the call raises, its text
   does not parse, it names no destination (DEFAULT), or it names a label,
   which may or may not be one of the routable names *)
RouteCallFailed == "<call failed>"
RouteUnparsable == "<unparsable>"
RouteDefault == "DEFAULT"
RouterOutputs ==
    {RouteCallFailed, RouteUnparsable, RouteDefault,
     "Market Analyst", "General Advisor", "Crypto Guru"}

(* Authorization headers.  A header is a sequence of pieces, the scheme
   prefix "Bearer " being one piece; the missing header (None) is a value of
   its own. *)
NoAuthorization == <<"<None>">>
Bearer == "Bearer "
Headers ==
    {NoAuthorization, <<>>, <<"Basic ", "alice-token">>, <<Bearer>>,
     <<Bearer, "alice-token">>, <<Bearer, "bob-token">>, <<Bearer, "expired">>}

(* the user a token was issued to by the auth service, if any *)
NoUser == "none"
TokenUser(token) ==
    IF token = <<"alice-token">> THEN "alice"
    ELSE IF token = <<"bob-token">> THEN "bob"
    ELSE NoUser

(* supabase_client.auth.get_user(token): the service answers with the
   token's user, with no user, or the call raises *)
AuthRaises == "<raises>"
AuthOutcomes(token) == {TokenUser(token), AuthRaises}

----------------------------------------------------------------------------
(* The query layer: pure functions over the tables *)

(* .eq("conversation_id", cid) on chat_messages *)
MessagesOf(msgs, cid) == {m \in msgs : m.conversation_id = cid}

(* .order("created_at", desc=False) *)
RECURSIVE OrderByCreatedAt(_)
OrderByCreatedAt(S) ==
    IF S = {} THEN <<>>
    ELSE LET m == CHOOSE x \in S : \A y \in S : x.created_at <= y.created_at
         IN  <<m>> \o OrderByCreatedAt(S \ {m})

Min(a, b) == IF a < b THEN a ELSE b

(* .limit(limit).offset(offset) applied to an ordered result *)
LimitOffset(rows, limit, offset) ==
    SubSeq(rows, offset + 1, Min(Len(rows), offset + limit))

(* select * from chat_messages where conversation_id = cid
   order by created_at asc limit .. offset .. *)
SelectMessages(msgs, cid, limit, offset) ==
    LimitOffset(OrderByCreatedAt(MessagesOf(msgs, cid)), limit, offset)

(* the same select without .eq("user_id", ..) *)
OwnedConversationAnyUser(convs, cid, uid) == cid \in DOMAIN convs

(* select .. from conversations where id = cid and user_id = uid *)
OwnedConversation(convs, cid, uid) ==
    cid \in DOMAIN convs /\ convs[cid].user_id = uid

(* the same delete without .eq("conversation_id", ..) *)
DeleteMessagesUnfiltered(msgs, cid) == {}

(* delete from chat_messages where conversation_id = cid *)
DeleteMessages(msgs, cid) == {m \in msgs : m.conversation_id # cid}

(* update conversations set .. where id = cid; no row matched is not an error *)
UpdateConversation(convs, cid, title, updated_at) ==
    [c \in DOMAIN convs |->
        IF c = cid
        THEN [convs[c] EXCEPT !.title = title, !.updated_at = updated_at]
        ELSE convs[c]]

(* update conversations set updated_at = .. without the filter on id *)
TouchConversationUnfiltered(convs, cid, updated_at) ==
    [c \in DOMAIN convs |-> [convs[c] EXCEPT !.updated_at = updated_at]]

TouchConversation(convs, cid, updated_at) ==
    [c \in DOMAIN convs |->
        IF c = cid THEN [convs[c] EXCEPT !.updated_at = updated_at]
        ELSE convs[c]]

InsertConversation(convs, id, row) ==
    [c \in DOMAIN convs \cup {id} |-> IF c = id THEN row ELSE convs[c]]

RemoveConversation(convs, cid) ==
    [c \in DOMAIN convs \ {cid} |-> convs[c]]

(* history.add_user_message / add_ai_message for every fetched row *)
RECURSIVE RenderHistory(_)
RenderHistory(rows) ==
    IF rows = <<>> THEN <<>>
    ELSE LET msg == Head(rows)
             u == IF msg.user_message # <<>>
                  THEN << <<"human", msg.user_message>> >> ELSE <<>>
             a == IF msg.ai_response # <<>>
                  THEN << <<"ai", msg.ai_response>> >> ELSE <<>>
         IN  u \o a \o RenderHistory(Tail(rows))

(* rows read by get_chat_history: ascending by created_at, limit 20 *)
HistoryRows(msgs, cid) ==
    IF cid = NoConv THEN <<>> ELSE SelectMessages(msgs, cid, HistoryLimit, 0)

get_chat_history(msgs, cid) ==
    IF cid = NoConv THEN <<>> ELSE RenderHistory(HistoryRows(msgs, cid))

(* "New Financial Conversation", agents.py line 190 *)
TitlePlaceholder ==
    <<"N", "e", "w", " ", "F", "i", "n", "a", "n", "c", "i", "a", "l", " ",
      "C", "o", "n", "v", "e", "r", "s", "a", "t", "i", "o", "n">>

(* agents.py 186-197 *)
generate_conversation_title(user_message) ==
    IF user_message = <<>> THEN TitlePlaceholder
    ELSE IF Len(user_message) <= TitleMax THEN user_message
         ELSE SubSeq(user_message, 1, 47) \o <<".", ".", ".">>

(* a title cut so that it fits TitleMax with its suffix *)
ChatTitleWithinMax(message) ==
    IF Len(message) > TitleMax
    THEN SubSeq(message, 1, TitleMax - 3) \o <<".", ".", ".">>
    ELSE message

(* chat: title of a new conversation, main.py line 567 *)
ChatTitle(message) ==
    IF Len(message) > TitleMax
    THEN SubSeq(message, 1, TitleMax) \o <<".", ".", ".">>
    ELSE message

(* chat: the same lines without the fallback of 542-543 *)
AgentNameOfRaw(destination) == destination

(* chat: agent name taken from the chain's response, main.py 541-543 *)
AgentNameOf(destination) ==
    LET got == IF destination = NoDestination THEN DefaultAgent ELSE destination
    IN  IF got = "" \/ got = "default_chain" THEN DefaultAgent ELSE got

----------------------------------------------------------------------------
(* Authentication dependency, main.py 471-491 *)

(* authorization.startswith("Bearer ") *)
StartsWithBearer(authorization) ==
    Len(authorization) >= 1 /\ authorization[1] = Bearer

(* authorization.replace("Bearer ", "") *)
RECURSIVE ReplaceBearer(_)
ReplaceBearer(authorization) ==
    IF authorization = <<>> THEN <<>>
    ELSE IF Head(authorization) = Bearer THEN ReplaceBearer(Tail(authorization))
    ELSE <<Head(authorization)>> \o ReplaceBearer(Tail(authorization))

Unauthorized(detail) == [status_code |-> 401, user |-> NoUser, detail |-> detail]

(* the same function without the check of response.user, lines 483-484 *)
get_current_user_unchecked(authorization, response) ==
    IF authorization = NoAuthorization \/ authorization = <<>>
       \/ ~StartsWithBearer(authorization)
    THEN Unauthorized("Invalid authentication token")
    ELSE IF response = AuthRaises
         THEN Unauthorized("Authentication error")
         ELSE [status_code |-> 200, user |-> response, detail |-> ""]

(* response is what auth.get_user answers for the token of the header; the
   HTTPException of line 484 is raised inside the try and re-raised, as 401
   again, by the except of lines 487-491 *)
get_current_user(authorization, response) ==
    IF authorization = NoAuthorization \/ authorization = <<>>
       \/ ~StartsWithBearer(authorization)
    THEN Unauthorized("Invalid authentication token")
    ELSE IF response = AuthRaises
         THEN Unauthorized("Authentication error")
         ELSE IF response = NoUser
              THEN Unauthorized("Authentication error")
              ELSE [status_code |-> 200, user |-> response, detail |-> ""]

(* the token get_current_user sends to the auth service *)
TokenOf(authorization) ==
    IF authorization = NoAuthorization THEN <<>> ELSE ReplaceBearer(authorization)

----------------------------------------------------------------------------
(* The agent catalog, agents.py *)

AgentDefinition(name, display_name, tools, instructions) ==
    [name |-> name, display_name |-> display_name, tools |-> tools,
     instructions |-> instructions]

(* AGENT_DEFINITIONS as the module declares it, lines 50-140; an agent's
   instructions are stood for by their opening words *)
AgentCatalog ==
    [n \in {"market_analyst", "portfolio_manager", "financial_advisor",
            "tax_planner", "retirement_planner", "general"} |->
        CASE n = "market_analyst" ->
                AgentDefinition(n, "Market Analyst", <<"NewsSearch", "PriceCheck">>,
                                "You are a Market Analyst")
          [] n = "portfolio_manager" ->
                AgentDefinition(n, "Portfolio Manager",
                                <<"AnalyzePortfolio", "RiskAssessment", "PerformanceChart">>,
                                "You are a Portfolio Manager")
          [] n = "financial_advisor" ->
                AgentDefinition(n, "Financial Advisor",
                                <<"CreatePlan", "AnalyzePortfolio", "RiskAssessment">>,
                                "You are a Financial Advisor")
          [] n = "tax_planner" ->
                AgentDefinition(n, "Tax Strategist", <<"AnalyzePortfolio", "CreatePlan">>,
                                "You are a Tax Strategist")
          [] n = "retirement_planner" ->
                AgentDefinition(n, "Retirement Planning", <<"CreatePlan", "AnalyzePortfolio">>,
                                "You are a Retirement Planning Specialist")
          [] n = "general" ->
                AgentDefinition(n, "Financial Assistant",
                                <<"NewsSearch", "PriceCheck", "AnalyzePortfolio", "CreatePlan">>,
                                "You are a General Financial Assistant")]

ERROR_AGENT ==
    AgentDefinition("error", "Error Recovery", <<>>, "You are an Error Recovery assistant")

DEFAULT_AGENT ==
    AgentDefinition("default", "AI Advisor", <<>>, "You are an AI Financial Assistant")

(* the same lookup without the branch for the name "error" *)
get_agent_definition_no_error(catalog, agent_name) ==
    IF agent_name \in DOMAIN catalog THEN catalog[agent_name] ELSE DEFAULT_AGENT

get_agent_definition(catalog, agent_name) ==
    IF agent_name \in DOMAIN catalog THEN catalog[agent_name]
    ELSE IF agent_name = "error" THEN ERROR_AGENT
    ELSE DEFAULT_AGENT

(* the names of the Tool objects, main.py 280-321 *)
RegisteredTools ==
    {"FinancialNewsSearch", "StockPriceCheck", "PortfolioAnalyzer", "FinancialPlanner",
     "TaxOptimizer", "RiskAssessor", "PerformanceChartGenerator"}

(* names a caller may look up: the catalog's keys, the two fallback agents'
   own names, a display name, a key in another case, the empty name *)
LookupNames ==
    DOMAIN AgentCatalog \cup {"error", "default", "Market Analyst", "General", ""}

----------------------------------------------------------------------------
(* Requests *)

(* ChatInput.context when the caller sends none, main.py 452 *)
NoContext == <<"<None>">>

IdleReq ==
    [op |-> "none", user |-> "none", conversation_id |-> NoConv,
     current_conversation_id |-> NoConv, message |-> <<>>, title |-> <<>>,
     context |-> NoContext,
     limit |-> 0, offset |-> 0, pc |-> "idle", status |-> 0, exc |-> "none",
     timestamp |-> 0, agent_name |-> "", agent_response |-> <<>>,
     history |-> <<>>, rows |-> <<>>, authorization |-> <<>>, route |-> "none"]

(* a handler returns or raises: the request is answered *)
Answer(q, status, exc) == [q EXCEPT !.pc = "done", !.status = status, !.exc = exc]

(* the request in slot r moves to q; everything else of the slot table stays *)
SetReq(r, q) == reqs' = [reqs EXCEPT ![r] = q]

(* a request arrives at a free slot; a single server process, whose handlers
   never yield inside, serves it to its end before it takes the next one *)
Accept(r) ==
    /\ reqs[r].pc = "idle"
    /\ processes = 1 => \A o \in Reqs : reqs[o].pc = "idle"
    /\ served < MaxRequests
    /\ served' = served + 1

(* the conversation ids a caller can name: the ids the store has handed out
   (the conversation may be gone since), and one that matches no row *)
NamedIds == (1 .. (nextId - 1)) \cup {UnknownConv}

(* a new request with its arguments bound *)
NewReq(op, user, cid) ==
    [IdleReq EXCEPT !.op = op, !.user = user, !.conversation_id = cid,
                    !.current_conversation_id = cid]

(* insert into chat_messages; a foreign key, where the schema declares one,
   refuses a row whose conversation does not exist *)
InsertMessageRefused(convs, cid) ==
    schema # "no_fk" /\ cid \notin DOMAIN convs

(* the row chat writes, main.py 550-558 and 576-584 *)
MessageRow(q, cid) ==
    [conversation_id |-> cid, user_id |-> q.user,
     user_message |-> q.message, ai_response |-> q.agent_response,
     context |-> q.context,
     agent_name |-> q.agent_name, created_at |-> q.timestamp]

Init ==
    /\ conversations = [c \in {} |-> 0]
    /\ chat_messages = {}
    /\ nextId = 1
    /\ now = 1
    /\ schema \in Schemas
    /\ reqs = [r \in Reqs |-> IdleReq]
    /\ served = 0
    /\ prev = NoConv
    /\ processes \in {1, 2}
    /\ AGENT_DEFINITIONS = AgentCatalog
    /\ calls = <<>>

----------------------------------------------------------------------------
(* POST /api/chat, main.py 502-597 *)

(* line 513, were a failing read of the history to raise *)
chat_get_chat_history_raising(r) ==
    /\ Accept(r)
    /\ \E u \in Users, cid \in {NoConv} \cup NamedIds, m \in Msgs, fail \in BOOLEAN :
          LET q == [NewReq("chat", u, cid) EXCEPT !.message = m, !.pc = "invoke"]
          IN  SetReq(r, IF fail THEN Answer(q, 500, "database")
                        ELSE [q EXCEPT
                                !.rows = HistoryRows(chat_messages, cid),
                                !.history = get_chat_history(chat_messages, cid)])
    /\ UNCHANGED <<conversations, chat_messages, nextId, now, schema, prev, processes, library>>

(* line 513: the history of the conversation named by the caller is read;
   a failing read yields the empty history (lines 824-826) *)
chat_get_chat_history(r) ==
    /\ Accept(r)
    /\ \E u \in Users, cid \in {NoConv} \cup NamedIds, m \in Msgs, fail \in BOOLEAN :
          LET q == [NewReq("chat", u, cid) EXCEPT !.message = m, !.pc = "invoke"]
          IN  SetReq(r, IF fail THEN q
                        ELSE [q EXCEPT
                                !.rows = HistoryRows(chat_messages, cid),
                                !.history = get_chat_history(chat_messages, cid)])
    /\ UNCHANGED <<conversations, chat_messages, nextId, now, schema, prev, processes, library>>

(* lines 516-546: routing and generation, then the request's timestamp *)
chat_invoke(r) ==
    /\ reqs[r].op = "chat" /\ reqs[r].pc = "invoke"
    /\ \/ /\ SetReq(r, Answer(reqs[r], 500, "generation"))
          /\ UNCHANGED now
       \/ /\ \E d \in ChatDestinations, a \in Replies :
                SetReq(r, [reqs[r] EXCEPT
                    !.agent_response = a,
                    !.agent_name = AgentNameOf(d),
                    !.timestamp = now,
                    !.pc = IF reqs[r].current_conversation_id # NoConv
                           THEN "insert_message" ELSE "insert_conversation"])
          /\ now' = now + 1
    /\ UNCHANGED <<conversations, chat_messages, nextId, schema, served, prev, processes, library>>

(* line 559, were the row upserted on conversation_id instead of inserted *)
chat_insert_message_upserting(r) ==
    /\ reqs[r].op = "chat" /\ reqs[r].pc = "insert_message"
    /\ LET q == reqs[r]
           cid == q.current_conversation_id
       IN  \E fail \in BOOLEAN :
             IF fail \/ InsertMessageRefused(conversations, cid)
             THEN /\ SetReq(r, Answer(q, 500, "database"))
                  /\ UNCHANGED chat_messages
             ELSE /\ chat_messages' =
                        DeleteMessages(chat_messages, cid) \cup {MessageRow(q, cid)}
                  /\ SetReq(r, [q EXCEPT !.pc = "update_conversation"])
    /\ UNCHANGED <<conversations, nextId, now, schema, served, prev, processes, library>>

(* line 559: the Turn is inserted into the conversation the caller named *)
chat_insert_message(r) ==
    /\ reqs[r].op = "chat" /\ reqs[r].pc = "insert_message"
    /\ LET q == reqs[r]
           cid == q.current_conversation_id
       IN  \E fail \in BOOLEAN :
             IF fail \/ InsertMessageRefused(conversations, cid)
             THEN /\ SetReq(r, Answer(q, 500, "database"))
                  /\ UNCHANGED chat_messages
             ELSE /\ chat_messages' = chat_messages \cup {MessageRow(q, cid)}
                  /\ SetReq(r, [q EXCEPT !.pc = "update_conversation"])
    /\ UNCHANGED <<conversations, nextId, now, schema, served, prev, processes, library>>

(* lines 560-562, were updated_at a second reading of the clock *)
chat_update_conversation_second_clock(r) ==
    /\ reqs[r].op = "chat" /\ reqs[r].pc = "update_conversation"
    /\ now' = now + 1
    /\ LET q == reqs[r]
       IN  \E fail \in BOOLEAN :
             IF fail
             THEN /\ SetReq(r, Answer(q, 500, "database"))
                  /\ UNCHANGED conversations
             ELSE /\ conversations' =
                        TouchConversation(conversations, q.current_conversation_id, now)
                  /\ SetReq(r, Answer(q, 200, "none"))
    /\ UNCHANGED <<chat_messages, nextId, schema, served, prev, processes, library>>

(* lines 560-562: updated_at of that conversation is set to the timestamp *)
chat_update_conversation(r) ==
    /\ reqs[r].op = "chat" /\ reqs[r].pc = "update_conversation"
    /\ LET q == reqs[r]
       IN  \E fail \in BOOLEAN :
             IF fail
             THEN /\ SetReq(r, Answer(q, 500, "database"))
                  /\ UNCHANGED conversations
             ELSE /\ conversations' =
                        TouchConversation(conversations,
                                          q.current_conversation_id, q.timestamp)
                  /\ SetReq(r, Answer(q, 200, "none"))
    /\ UNCHANGED <<chat_messages, nextId, now, schema, served, prev, processes, library>>

(* lines 565-573 without line 573: the new id is not taken over *)
chat_insert_conversation_id_dropped(r) ==
    /\ reqs[r].op = "chat" /\ reqs[r].pc = "insert_conversation"
    /\ LET q == reqs[r]
       IN  \E fail \in BOOLEAN :
             IF fail
             THEN /\ SetReq(r, Answer(q, 500, "database"))
                  /\ UNCHANGED <<conversations, nextId>>
             ELSE /\ nextId <= MaxConvs
                  /\ conversations' = InsertConversation(conversations, nextId,
                        [user_id |-> q.user, title |-> ChatTitle(q.message),
                         created_at |-> q.timestamp, updated_at |-> q.timestamp])
                  /\ nextId' = nextId + 1
                  /\ SetReq(r, [q EXCEPT !.pc = "insert_first_message"])
    /\ UNCHANGED <<chat_messages, now, schema, served, prev, processes, library>>

(* lines 565-573: no conversation was named, a new one is created *)
chat_insert_conversation(r) ==
    /\ reqs[r].op = "chat" /\ reqs[r].pc = "insert_conversation"
    /\ LET q == reqs[r]
       IN  \E fail \in BOOLEAN :
             IF fail
             THEN /\ SetReq(r, Answer(q, 500, "database"))
                  /\ UNCHANGED <<conversations, nextId>>
             ELSE /\ nextId <= MaxConvs
                  /\ conversations' = InsertConversation(conversations, nextId,
                        [user_id |-> q.user, title |-> ChatTitle(q.message),
                         created_at |-> q.timestamp, updated_at |-> q.timestamp])
                  /\ nextId' = nextId + 1
                  /\ SetReq(r, [q EXCEPT !.current_conversation_id = nextId,
                                         !.pc = "insert_first_message"])
    /\ UNCHANGED <<chat_messages, now, schema, served, prev, processes, library>>

(* lines 576-592, were a failed insert followed by a compensating delete of
   the conversation just created *)
chat_insert_first_message_compensating(r) ==
    /\ reqs[r].op = "chat" /\ reqs[r].pc = "insert_first_message"
    /\ LET q == reqs[r]
           cid == q.current_conversation_id
       IN  \E fail \in BOOLEAN :
             IF fail \/ InsertMessageRefused(conversations, cid)
             THEN /\ SetReq(r, Answer(q, 500, "database"))
                  /\ conversations' = RemoveConversation(conversations, cid)
                  /\ UNCHANGED chat_messages
             ELSE /\ chat_messages' = chat_messages \cup {MessageRow(q, cid)}
                  /\ SetReq(r, Answer(q, 200, "none"))
                  /\ UNCHANGED conversations
    /\ UNCHANGED <<nextId, now, schema, served, prev, processes, library>>

(* lines 576-592: the first Turn of the new conversation *)
chat_insert_first_message(r) ==
    /\ reqs[r].op = "chat" /\ reqs[r].pc = "insert_first_message"
    /\ LET q == reqs[r]
           cid == q.current_conversation_id
       IN  \E fail \in BOOLEAN :
             IF fail \/ InsertMessageRefused(conversations, cid)
             THEN /\ SetReq(r, Answer(q, 500, "database"))
                  /\ UNCHANGED chat_messages
             ELSE /\ chat_messages' = chat_messages \cup {MessageRow(q, cid)}
                  /\ SetReq(r, Answer(q, 200, "none"))
    /\ UNCHANGED <<conversations, nextId, now, schema, served, prev, processes, library>>

chat(r) ==
    \/ chat_get_chat_history(r)
    \/ chat_invoke(r)
    \/ chat_insert_message(r)
    \/ chat_update_conversation(r)
    \/ chat_insert_conversation(r)
    \/ chat_insert_first_message(r)

----------------------------------------------------------------------------
(* POST /api/conversations, main.py 599-626 *)

create_conversation(r) ==
    /\ Accept(r)
    /\ \E u \in Users, t \in Titles, fail \in BOOLEAN :
          LET q == [NewReq("create", u, NoConv) EXCEPT !.title = t, !.timestamp = now]
          IN  /\ now' = now + 1
              /\ IF fail
                 THEN /\ SetReq(r, Answer(q, 500, "database"))
                      /\ UNCHANGED <<conversations, nextId>>
                 ELSE /\ nextId <= MaxConvs
                      /\ conversations' = InsertConversation(conversations, nextId,
                            [user_id |-> u, title |-> t,
                             created_at |-> now, updated_at |-> now])
                      /\ nextId' = nextId + 1
                      /\ SetReq(r, Answer([q EXCEPT !.current_conversation_id = nextId],
                                          200, "none"))
    /\ UNCHANGED <<chat_messages, schema, prev, processes, library>>

----------------------------------------------------------------------------
(* The ownership check every conversation route starts with:
   select .. from conversations where id = .. and user_id = ..; an empty
   result raises 404, which the handler re-raises unchanged *)

verify_ownership(q, fail, next_pc) ==
    IF fail THEN Answer(q, 500, "database")
    ELSE IF ~OwnedConversation(conversations, q.conversation_id, q.user)
         THEN Answer(q, 404, "http")
         ELSE [q EXCEPT !.pc = next_pc]

----------------------------------------------------------------------------
(* clear_conversation, conversation_routes.py 177-210 *)

(* lines 184-191 *)
clear_verify(r) ==
    /\ Accept(r)
    /\ \E u \in Users, cid \in NamedIds, fail \in BOOLEAN :
          SetReq(r, verify_ownership(NewReq("clear", u, cid), fail, "delete_messages"))
    /\ UNCHANGED <<conversations, chat_messages, nextId, now, schema, prev, processes, library>>

(* lines 194-197, were an empty delete taken for a failure *)
clear_delete_messages_strict(r) ==
    /\ reqs[r].op = "clear" /\ reqs[r].pc = "delete_messages"
    /\ \E fail \in BOOLEAN :
          IF fail \/ MessagesOf(chat_messages, reqs[r].conversation_id) = {}
          THEN /\ SetReq(r, Answer(reqs[r], 500, "http"))
               /\ UNCHANGED chat_messages
          ELSE /\ chat_messages' = DeleteMessages(chat_messages, reqs[r].conversation_id)
               /\ SetReq(r, [reqs[r] EXCEPT !.pc = "update_conversation"])
    /\ UNCHANGED <<conversations, nextId, now, schema, served, prev, processes, library>>

(* lines 194-197 *)
clear_delete_messages(r) ==
    /\ reqs[r].op = "clear" /\ reqs[r].pc = "delete_messages"
    /\ \E fail \in BOOLEAN :
          IF fail
          THEN /\ SetReq(r, Answer(reqs[r], 500, "database"))
               /\ UNCHANGED chat_messages
          ELSE /\ chat_messages' = DeleteMessages(chat_messages, reqs[r].conversation_id)
               /\ SetReq(r, [reqs[r] EXCEPT !.pc = "update_conversation"])
    /\ UNCHANGED <<conversations, nextId, now, schema, served, prev, processes, library>>

(* lines 200-205: updated_at := datetime.now() *)
clear_update_conversation(r) ==
    /\ reqs[r].op = "clear" /\ reqs[r].pc = "update_conversation"
    /\ now' = now + 1
    /\ \E fail \in BOOLEAN :
          IF fail
          THEN /\ SetReq(r, Answer(reqs[r], 500, "database"))
               /\ UNCHANGED conversations
          ELSE /\ conversations' =
                     TouchConversation(conversations, reqs[r].conversation_id, now)
               /\ SetReq(r, Answer([reqs[r] EXCEPT !.timestamp = now], 200, "none"))
    /\ UNCHANGED <<chat_messages, nextId, schema, served, prev, processes, library>>

clear_conversation(r) ==
    \/ clear_verify(r)
    \/ clear_delete_messages(r)
    \/ clear_update_conversation(r)

----------------------------------------------------------------------------
(* update_conversation_title, conversation_routes.py 213-241 *)

title_verify(r) ==
    /\ Accept(r)
    /\ \E u \in Users, cid \in NamedIds, t \in Titles, fail \in BOOLEAN :
          SetReq(r, verify_ownership([NewReq("title", u, cid) EXCEPT !.title = t],
                                     fail, "update_conversation"))
    /\ UNCHANGED <<conversations, chat_messages, nextId, now, schema, prev, processes, library>>

(* lines 231-236 *)
title_update_conversation(r) ==
    /\ reqs[r].op = "title" /\ reqs[r].pc = "update_conversation"
    /\ now' = now + 1
    /\ \E fail \in BOOLEAN :
          IF fail
          THEN /\ SetReq(r, Answer(reqs[r], 500, "database"))
               /\ UNCHANGED conversations
          ELSE /\ conversations' =
                     UpdateConversation(conversations, reqs[r].conversation_id,
                                        reqs[r].title, now)
               /\ SetReq(r, Answer([reqs[r] EXCEPT !.timestamp = now], 200, "none"))
    /\ UNCHANGED <<chat_messages, nextId, schema, served, prev, processes, library>>

update_conversation_title(r) ==
    \/ title_verify(r)
    \/ title_update_conversation(r)

----------------------------------------------------------------------------
(* Deleting a conversations row.  What happens to its chat_messages rows is
   the schema's business: a restricting foreign key refuses the delete while
   rows reference it, a cascading one removes them, no key leaves them. *)

DeleteConversationRefused(msgs, cid) ==
    schema = "fk_restrict" /\ MessagesOf(msgs, cid) # {}

MessagesAfterConversationDelete(msgs, cid) ==
    IF schema = "fk_cascade" THEN DeleteMessages(msgs, cid) ELSE msgs

delete_conversation_row(r) ==
    /\ reqs[r].pc = "delete_conversation"
    /\ LET cid == reqs[r].conversation_id
       IN  \E fail \in BOOLEAN :
             IF fail \/ DeleteConversationRefused(chat_messages, cid)
             THEN /\ SetReq(r, Answer(reqs[r], 500, "database"))
                  /\ UNCHANGED <<conversations, chat_messages>>
             ELSE /\ conversations' = RemoveConversation(conversations, cid)
                  /\ chat_messages' = MessagesAfterConversationDelete(chat_messages, cid)
                  /\ SetReq(r, Answer(reqs[r], 200, "none"))
    /\ UNCHANGED <<nextId, now, schema, served, prev, processes, library>>

(* delete_conversation, conversation_routes.py 141-174 *)

(* lines 148-155 *)
delete_verify(r) ==
    /\ Accept(r)
    /\ \E u \in Users, cid \in NamedIds, fail \in BOOLEAN :
          SetReq(r, verify_ownership(NewReq("delete", u, cid), fail, "delete_messages"))
    /\ UNCHANGED <<conversations, chat_messages, nextId, now, schema, prev, processes, library>>

(* lines 158-161 left out: the handler goes on to the conversation row *)
delete_delete_messages_skipped(r) ==
    /\ reqs[r].op = "delete" /\ reqs[r].pc = "delete_messages"
    /\ SetReq(r, [reqs[r] EXCEPT !.pc = "delete_conversation"])
    /\ UNCHANGED <<conversations, chat_messages, nextId, now, schema, served, prev, processes,
                   library>>

(* lines 158-161 *)
delete_delete_messages(r) ==
    /\ reqs[r].op = "delete" /\ reqs[r].pc = "delete_messages"
    /\ \E fail \in BOOLEAN :
          IF fail
          THEN /\ SetReq(r, Answer(reqs[r], 500, "database"))
               /\ UNCHANGED chat_messages
          ELSE /\ chat_messages' = DeleteMessages(chat_messages, reqs[r].conversation_id)
               /\ SetReq(r, [reqs[r] EXCEPT !.pc = "delete_conversation"])
    /\ UNCHANGED <<conversations, nextId, now, schema, served, prev, processes, library>>

(* lines 164-169 *)
delete_delete_conversation(r) ==
    /\ reqs[r].op = "delete"
    /\ delete_conversation_row(r)

delete_conversation(r) ==
    \/ delete_verify(r)
    \/ delete_delete_messages(r)
    \/ delete_delete_conversation(r)

(* delete_conversation, main.py 668-690: the conversations row only *)

(* lines 677-680 *)
main_delete_verify(r) ==
    /\ Accept(r)
    /\ \E u \in Users, cid \in NamedIds, fail \in BOOLEAN :
          SetReq(r, verify_ownership(NewReq("main_delete", u, cid), fail, "delete_conversation"))
    /\ UNCHANGED <<conversations, chat_messages, nextId, now, schema, prev, processes, library>>

main_delete_delete_conversation(r) ==
    /\ reqs[r].op = "main_delete"
    /\ delete_conversation_row(r)

main_delete_conversation(r) ==
    \/ main_delete_verify(r)
    \/ main_delete_delete_conversation(r)

----------------------------------------------------------------------------
(* get_conversation_messages, conversation_routes.py 244-285 *)

messages_verify(r) ==
    /\ Accept(r)
    /\ \E u \in Users, cid \in NamedIds, l \in MessageLimits, o \in MessageOffsets,
          fail \in BOOLEAN :
          SetReq(r, verify_ownership(
                        [NewReq("messages", u, cid) EXCEPT !.limit = l, !.offset = o],
                        fail, "select_messages"))
    /\ UNCHANGED <<conversations, chat_messages, nextId, now, schema, prev, processes, library>>

(* lines 266-280 *)
messages_select(r) ==
    /\ reqs[r].op = "messages" /\ reqs[r].pc = "select_messages"
    /\ \E fail \in BOOLEAN :
          SetReq(r, IF fail THEN Answer(reqs[r], 500, "database")
                    ELSE Answer([reqs[r] EXCEPT !.rows =
                            SelectMessages(chat_messages, reqs[r].conversation_id,
                                           reqs[r].limit, reqs[r].offset)],
                                200, "none"))
    /\ UNCHANGED <<conversations, chat_messages, nextId, now, schema, served, prev, processes, library>>

get_conversation_messages(r) ==
    \/ messages_verify(r)
    \/ messages_select(r)

----------------------------------------------------------------------------
(* The response has been sent; the slot serves the next request *)

Finish(r) ==
    /\ reqs[r].pc = "done"
    /\ prev' = IF reqs[r].op = "clear" /\ reqs[r].status = 200
                THEN reqs[r].conversation_id ELSE NoConv
    /\ SetReq(r, IdleReq)
    /\ UNCHANGED <<conversations, chat_messages, nextId, now, schema, served, processes, library>>

Next ==
    \E r \in Reqs :
        \/ chat(r)
        \/ create_conversation(r)
        \/ clear_conversation(r)
        \/ update_conversation_title(r)
        \/ delete_conversation(r)
        \/ main_delete_conversation(r)
        \/ get_conversation_messages(r)
        \/ Finish(r)

(* any deployment: one server process, or several against the one database,
   whose requests interleave at their database calls *)
Spec == Init /\ [][Next]_vars

(* the schema conversation_routes.py line 157 speaks of: chat_messages
   references conversations through a foreign key *)
InitFk == Init /\ schema = "fk_restrict"

SpecFk == InitFk /\ [][Next]_vars

(* the deployment start_backend.py starts: one server process *)
InitSeq == Init /\ processes = 1

SpecSeq == InitSeq /\ [][Next]_vars

----------------------------------------------------------------------------
(* POST /api/chat step by step, from the authentication dependency to the
   reply: main.py 502-546 with the classifier's and the auth service's
   answers spelled out.  The writes that follow are the actions above. *)

(* line 506, Depends(get_current_user): runs before the handler's body *)
chat_get_current_user(r) ==
    /\ Accept(r)
    /\ \E authorization \in Headers, cid \in {NoConv} \cup NamedIds, m \in Msgs :
          \E response \in AuthOutcomes(TokenOf(authorization)) :
             LET res == get_current_user(authorization, response)
                 q == [NewReq("chat", res.user, cid) EXCEPT
                          !.message = m, !.authorization = authorization]
             IN  SetReq(r, IF res.status_code = 401 THEN Answer(q, 401, "http")
                           ELSE [q EXCEPT !.pc = "get_chat_history"])
    /\ UNCHANGED <<conversations, chat_messages, nextId, now, schema, prev, processes, library>>

(* line 513: get_chat_history, empty when the read fails *)
chat_history(r) ==
    /\ reqs[r].op = "chat" /\ reqs[r].pc = "get_chat_history"
    /\ LET q == reqs[r]
           cid == q.conversation_id
       IN  \E fail \in BOOLEAN :
             SetReq(r, IF fail THEN [q EXCEPT !.pc = "route"]
                       ELSE [q EXCEPT
                               !.rows = HistoryRows(chat_messages, cid),
                               !.history = get_chat_history(chat_messages, cid),
                               !.pc = "route"])
    /\ UNCHANGED <<conversations, chat_messages, nextId, now, schema, served, prev, processes,
                   library>>

(* the chain MultiPromptChain hands the input to: the default chain when the
   classifier names no destination, the named chain otherwise *)
ChainOf(route) == IF route = RouteDefault THEN DefaultAgent ELSE route

(* lines 521-535, routing: the classification call raises, its output does
   not parse, or it names a chain that is not in destination_chains: each of
   these raises out of invoke, into the except of line 593 *)
chat_route(r) ==
    /\ reqs[r].op = "chat" /\ reqs[r].pc = "route"
    /\ \E out \in RouterOutputs :
          LET q == [reqs[r] EXCEPT !.route = out]
          IN  SetReq(r, IF out \in {RouteCallFailed, RouteUnparsable}
                           \/ ChainOf(out) \notin RoutableNames
                        THEN Answer(q, 500, "routing")
                        ELSE [q EXCEPT !.pc = "generate"])
    /\ UNCHANGED <<conversations, chat_messages, nextId, now, schema, served, prev, processes,
                   library>>

(* the "destination" entry of response_data: absent, or the chain that ran
   under the name the chain object gives it *)
ResponseDestinations(route) ==
    {NoDestination, ChainOf(route)}
        \cup (IF route = RouteDefault THEN {"", "default_chain"} ELSE {})

(* lines 532-546: the destination chain generates the reply, or raises *)
chat_generate(r) ==
    /\ reqs[r].op = "chat" /\ reqs[r].pc = "generate"
    /\ \/ /\ SetReq(r, Answer(reqs[r], 500, "generation"))
          /\ UNCHANGED now
       \/ /\ \E d \in ResponseDestinations(reqs[r].route), a \in Replies :
                SetReq(r, [reqs[r] EXCEPT
                    !.agent_response = a,
                    !.agent_name = AgentNameOf(d),
                    !.timestamp = now,
                    !.pc = IF reqs[r].current_conversation_id # NoConv
                           THEN "insert_message" ELSE "insert_conversation"])
          /\ now' = now + 1
    /\ UNCHANGED <<conversations, chat_messages, nextId, schema, served, prev, processes,
                   library>>

ChatNext ==
    \E r \in Reqs :
        \/ chat_get_current_user(r)
        \/ chat_history(r)
        \/ chat_route(r)
        \/ chat_generate(r)
        \/ chat_insert_message(r)
        \/ chat_update_conversation(r)
        \/ chat_insert_conversation(r)
        \/ chat_insert_first_message(r)
        \/ Finish(r)

(* chat requests alone, on the one server process start_backend.py starts *)
SpecChat == InitSeq /\ [][ChatNext]_vars

----------------------------------------------------------------------------
(* The agents' tools, main.py 58-277.  A tool's body either returns a text or
   raises; an except clause turns the exceptions of its classes into the
   text it returns. *)

Return(text) == [kind |-> "return", error |-> FALSE, text |-> text]
ReturnError(text) == [kind |-> "return", error |-> TRUE, text |-> text]
Raise(exception) == [kind |-> "raise", error |-> TRUE, text |-> exception]

(* the classes `except Exception` catches, as far as the tools raise them *)
ExceptionClasses ==
    {"RequestException", "JSONDecodeError", "AttributeError", "TypeError",
     "KeyError", "ValueError"}

(* try: body except classes: return text *)
Except(body, classes, text) ==
    IF body.kind = "raise" /\ body.text \in classes THEN ReturnError(text) ELSE body

(* String arguments by what json.loads makes of them: parses says whether
   the text is JSON, type is the type of the parsed value, field the type of
   the entry a tool takes the length of ("stocks", "savings_goals") when the
   value is an object, points whether a list holds only objects with 'date'
   and 'value'. *)
JsonArg(parses, type, field, points) ==
    [parses |-> parses, type |-> type, field |-> field, points |-> points]

ToolArgs ==
    {JsonArg(FALSE, "none", "absent", FALSE),
     JsonArg(TRUE, "dict", "list", FALSE),
     JsonArg(TRUE, "dict", "absent", FALSE),
     JsonArg(TRUE, "dict", "num", FALSE),
     JsonArg(TRUE, "list", "absent", TRUE),
     JsonArg(TRUE, "list", "absent", FALSE),
     JsonArg(TRUE, "num", "absent", FALSE),
     JsonArg(TRUE, "str", "absent", FALSE)}

(* json.loads(text) followed by data.get(..) and len(data.get(key, [])) *)
LoadAndMeasure(arg, text) ==
    IF ~arg.parses THEN Raise("JSONDecodeError")
    ELSE IF arg.type # "dict" THEN Raise("AttributeError")
    ELSE IF arg.field = "num" THEN Raise("TypeError")
    ELSE Return(text)

(* json.loads(text), the value never looked at *)
LoadOnly(arg, text) ==
    IF ~arg.parses THEN Raise("JSONDecodeError") ELSE Return(text)

(* lines 139-165 *)
analyze_portfolio(portfolio_details) ==
    Except(Except(LoadAndMeasure(portfolio_details, "Portfolio analysis (conceptual)"),
                  {"JSONDecodeError"},
                  "Error: Invalid JSON format for portfolio details."),
           ExceptionClasses, "Error during portfolio analysis")

(* lines 167-191 *)
create_financial_plan(plan_details) ==
    Except(Except(LoadAndMeasure(plan_details, "Financial plan creation (conceptual)"),
                  {"JSONDecodeError"},
                  "Error: Invalid JSON format for plan details."),
           ExceptionClasses, "Error during financial plan creation")

(* lines 194-210 *)
optimize_taxes(portfolio_info) ==
    Except(Except(LoadOnly(portfolio_info, "Tax optimization advice (conceptual)"),
                  {"JSONDecodeError"},
                  "Error: Invalid JSON format for portfolio information."),
           ExceptionClasses, "Error during tax optimization")

(* lines 212-227 *)
assess_risk(risk_profile) ==
    Except(Except(LoadOnly(risk_profile, "Risk assessment (conceptual)"),
                  {"JSONDecodeError"},
                  "Error: Invalid JSON format for risk profile."),
           ExceptionClasses, "Error during risk assessment")

(* lines 229-277 *)
generate_performance_chart(portfolio_history) ==
    LET body ==
            IF ~portfolio_history.parses THEN Raise("JSONDecodeError")
            ELSE IF portfolio_history.type # "list" \/ ~portfolio_history.points
                 THEN ReturnError("Error: Invalid format for portfolio_history.")
                 ELSE Return("chart_data")
    IN  Except(Except(body, {"JSONDecodeError"},
                      "Error: Invalid JSON format for portfolio history."),
               ExceptionClasses, "Error generating performance chart")

(* what the news service does with the request *)
NewsOutcomes ==
    {"connection error", "http error", "body not json", "json list",
     "status not OK", "OK without news", "OK with malformed news", "OK with news"}

NewsFailures ==
    {"connection error", "http error", "body not json", "json list",
     "status not OK", "OK with malformed news"}

Queries == {"AAPL", "interest rates"}

(* lines 58-116; configured: NEWS_API_KEY is set *)
search_financial_news(query, configured, api) ==
    IF ~configured THEN ReturnError("Error: RAPIDAPI_KEY for news service is not configured.")
    ELSE
    LET body ==
            CASE api \in {"connection error", "http error"} -> Raise("RequestException")
              [] api = "body not json" -> Raise("JSONDecodeError")
              [] api = "json list" -> Raise("AttributeError")
              [] api = "status not OK" -> ReturnError("Error from news API")
              [] api = "OK without news" -> Return("No news articles found")
              [] api = "OK with malformed news" -> Raise("AttributeError")
              [] api = "OK with news" -> Return("formatted_articles")
    IN  Except(Except(Except(body, {"RequestException"},
                             "Error fetching news. HTTP request failed"),
                      {"JSONDecodeError"}, "Error decoding news API response"),
               ExceptionClasses, "An unexpected error occurred while fetching news")

(* what the quote service does with the symbol *)
QuoteOutcomes ==
    {"raises", "history", "no history, price in info",
     "no history, price in info not a number", "no history, no price"}

QuoteFailures == {"raises", "no history, price in info not a number", "no history, no price"}

(* lines 118-137 *)
get_stock_price(symbol, quote) ==
    LET body ==
            CASE quote = "raises" -> Raise("RequestException")
              [] quote = "history" -> Return("The current price")
              [] quote = "no history, price in info" -> Return("The current price")
              [] quote = "no history, price in info not a number" -> Raise("ValueError")
              [] quote = "no history, no price" ->
                    ReturnError("Could not retrieve current price")
    IN  Except(body, ExceptionClasses, "Error fetching stock price")

JsonTools ==
    {"analyze_portfolio", "create_financial_plan", "optimize_taxes", "assess_risk",
     "generate_performance_chart"}

(* the record of one call of a tool by an agent *)
ToolCall(fn, argument, outcome, result) ==
    [fn |-> fn, argument |-> argument, outcome |-> outcome, result |-> result]

(* a tool touches neither table nor request *)
rest == <<conversations, chat_messages, nextId, now, schema, reqs, served, prev, processes,
          AGENT_DEFINITIONS>>

call_search_financial_news ==
    /\ Len(calls) < MaxToolCalls
    /\ \E query \in Queries, configured \in BOOLEAN, api \in NewsOutcomes :
          calls' = Append(calls,
                     ToolCall("search_financial_news", query,
                              IF configured THEN api ELSE "not configured",
                              search_financial_news(query, configured, api)))
    /\ UNCHANGED rest

call_get_stock_price ==
    /\ Len(calls) < MaxToolCalls
    /\ \E symbol \in Queries, quote \in QuoteOutcomes :
          calls' = Append(calls, ToolCall("get_stock_price", symbol, quote,
                                          get_stock_price(symbol, quote)))
    /\ UNCHANGED rest

call_analyze_portfolio ==
    /\ Len(calls) < MaxToolCalls
    /\ \E arg \in ToolArgs :
          calls' = Append(calls, ToolCall("analyze_portfolio", arg, "none",
                                          analyze_portfolio(arg)))
    /\ UNCHANGED rest

call_create_financial_plan ==
    /\ Len(calls) < MaxToolCalls
    /\ \E arg \in ToolArgs :
          calls' = Append(calls, ToolCall("create_financial_plan", arg, "none",
                                          create_financial_plan(arg)))
    /\ UNCHANGED rest

call_optimize_taxes ==
    /\ Len(calls) < MaxToolCalls
    /\ \E arg \in ToolArgs :
          calls' = Append(calls, ToolCall("optimize_taxes", arg, "none",
                                          optimize_taxes(arg)))
    /\ UNCHANGED rest

call_assess_risk ==
    /\ Len(calls) < MaxToolCalls
    /\ \E arg \in ToolArgs :
          calls' = Append(calls, ToolCall("assess_risk", arg, "none", assess_risk(arg)))
    /\ UNCHANGED rest

call_generate_performance_chart ==
    /\ Len(calls) < MaxToolCalls
    /\ \E arg \in ToolArgs :
          calls' = Append(calls, ToolCall("generate_performance_chart", arg, "none",
                                          generate_performance_chart(arg)))
    /\ UNCHANGED rest

ToolsNext ==
    \/ call_search_financial_news
    \/ call_get_stock_price
    \/ call_analyze_portfolio
    \/ call_create_financial_plan
    \/ call_optimize_taxes
    \/ call_assess_risk
    \/ call_generate_performance_chart

ToolsInit == InitSeq /\ schema = "fk_restrict"

SpecTools == ToolsInit /\ [][ToolsNext]_vars

----------------------------------------------------------------------------
(* Conversations opened by chat with first messages around the title's
   length limit. *)

(* a message of n characters *)
Text(n) == [i \in 1 .. n |-> "x"]

LongMsgs ==
    {Text(n) : n \in {0, 1, TitleMax - 1, TitleMax, TitleMax + 1, MaxMessageLen}}

(* lines 502-513 for a request without conversation_id: nothing is read *)
chat_first_message(r) ==
    /\ Accept(r)
    /\ \E u \in Users, m \in LongMsgs :
          SetReq(r, [NewReq("chat", u, NoConv) EXCEPT !.message = m, !.pc = "invoke"])
    /\ UNCHANGED <<conversations, chat_messages, nextId, now, schema, prev, processes, library>>

TitleNext ==
    \E r \in Reqs :
        \/ chat_first_message(r)
        \/ chat_invoke(r)
        \/ chat_insert_conversation(r)
        \/ chat_insert_first_message(r)
        \/ Finish(r)

(* one server process; the title does not depend on the schema *)
TitleInit == InitSeq /\ schema = "fk_restrict"

SpecTitle == TitleInit /\ [][TitleNext]_vars

----------------------------------------------------------------------------
(* Lookups in the agent catalog, agents.py 170-177: the function reads
   AGENT_DEFINITIONS and assigns nothing *)

lookup_agent_definition ==
    /\ Len(calls) < MaxLookups
    /\ \E agent_name \in LookupNames :
          calls' = Append(calls,
                     ToolCall("get_agent_definition", agent_name, "none",
                              get_agent_definition(AGENT_DEFINITIONS, agent_name)))
    /\ UNCHANGED rest

CatalogNext == lookup_agent_definition

SpecCatalog == ToolsInit /\ [][CatalogNext]_vars

----------------------------------------------------------------------------
(* The history window on long conversations.  The store holds two
   conversations of one user; whole chat requests append Turns to them one
   after the other (one server process, no failing call), and a chat request
   reads the history of the first conversation. *)

WUser == "alice"

WInit ==
    /\ conversations = [c \in {1, 2} |->
                          [user_id |-> WUser, title |-> <<"t">>,
                           created_at |-> c, updated_at |-> c]]
    /\ chat_messages = {}
    /\ nextId = 3
    /\ now = 3
    /\ schema = "fk_restrict"
    /\ reqs = [r \in Reqs |-> IdleReq]
    /\ served = 0
    /\ prev = NoConv
    /\ processes = 1
    /\ AGENT_DEFINITIONS = AgentCatalog
    /\ calls = <<>>

(* chat on conversation c, lines 546-562, from the timestamp to the update *)
WAppend(c) ==
    /\ \A r \in Reqs : reqs[r].pc = "idle"
    /\ Cardinality(MessagesOf(chat_messages, c)) < (IF c = 1 THEN WMaxTurns ELSE WMaxOther)
    /\ \E m \in Msgs, a \in Replies, d \in ChatDestinations :
          LET q == [NewReq("chat", WUser, c) EXCEPT
                        !.message = m, !.agent_response = a,
                        !.agent_name = AgentNameOf(d), !.timestamp = now]
          IN  /\ chat_messages' = chat_messages \cup {MessageRow(q, c)}
              /\ conversations' = TouchConversation(conversations, c, now)
    /\ now' = now + 1
    /\ UNCHANGED <<nextId, schema, reqs, served, prev, processes, library>>

(* chat on conversation 1, line 513: get_chat_history *)
WFetch(r) ==
    /\ \A o \in Reqs : reqs[o].pc = "idle"
    /\ SetReq(r, [NewReq("chat", WUser, 1) EXCEPT
                    !.message = <<"q">>, !.pc = "invoke",
                    !.rows = HistoryRows(chat_messages, 1),
                    !.history = get_chat_history(chat_messages, 1)])
    /\ UNCHANGED <<conversations, chat_messages, nextId, now, schema, served, prev,
                   processes, library>>

(* the request that read the history is over *)
WReturn(r) ==
    /\ reqs[r].pc = "invoke"
    /\ SetReq(r, IdleReq)
    /\ UNCHANGED <<conversations, chat_messages, nextId, now, schema, served, prev,
                   processes, library>>

WNext ==
    \/ \E c \in {1, 2} : WAppend(c)
    \/ \E r \in Reqs : WFetch(r)
    \/ \E r \in Reqs : WReturn(r)

SpecWindow == WInit /\ [][WNext]_vars

----------------------------------------------------------------------------
(* Vocabulary of the properties *)

Turns(cid) == {m \in chat_messages : m.conversation_id = cid}

Exists(cid) == cid \in DOMAIN conversations

OwnedByOther(cid, u) == Exists(cid) /\ conversations[cid].user_id # u

NotOwnedBy(cid, u) == ~Exists(cid) \/ conversations[cid].user_id # u

(* the Turn a chat request wrote: its timestamp is the request's alone *)
TurnOf(q) ==
    {m \in chat_messages : q.timestamp # 0 /\ m.created_at = q.timestamp
                           /\ m.user_id = q.user}

ConversationOps == {"chat", "messages", "clear", "delete", "main_delete"}

----------------------------------------------------------------------------
(* C1: a caller who does not own a conversation is rejected by every
   operation that reads or writes it: while the conversation a request names
   belongs to another user, the request has read none of its Turns (neither
   into the prompt history nor into a response), has appended no Turn to it,
   and is not answered with success. *)
NonOwnerIsRejected ==
    \A r \in Reqs :
        LET q == reqs[r]
        IN  (q.op \in ConversationOps /\ OwnedByOther(q.conversation_id, q.user))
            => /\ q.history = <<>>
               /\ q.rows = <<>>
               /\ TurnOf(q) = {}
               /\ q.pc = "done" => q.status # 200

(* C2: every stored Turn references an existing Conversation whose owner is
   the user recorded on the Turn. *)
TurnsBelongToOwnedConversation ==
    \A m \in chat_messages :
        /\ Exists(m.conversation_id)
        /\ conversations[m.conversation_id].user_id = m.user_id

(* C3: Conversation.updated_at >= max(Turn.created_at) over the
   conversation's Turns, in every reachable state. *)
UpdatedAtCoversTurns ==
    \A c \in DOMAIN conversations :
        \A m \in Turns(c) : conversations[c].updated_at >= m.created_at

(* C4: appending a Turn to an existing conversation is atomic with the
   update of updated_at: a chat request on a named conversation that is
   reported failed has left no Turn behind. *)
FailedAppendLeavesNothing ==
    \A r \in Reqs :
        LET q == reqs[r]
        IN  (q.op = "chat" /\ Exists(q.conversation_id) /\ q.pc = "done"
             /\ q.status # 200)
            => TurnOf(q) = {}

(* C5: history windowing: the history fetched for a chat request is the
   HistoryLimit most recent Turns of the conversation by created_at (all of
   them when there are fewer), ordered oldest first. *)
HistoryIsMostRecentWindow ==
    \A r \in Reqs :
        LET q == reqs[r]
            T == Turns(q.conversation_id)
            R == {q.rows[i] : i \in 1 .. Len(q.rows)}
        IN  (q.op = "chat" /\ q.pc = "invoke" /\ q.conversation_id # NoConv)
            => /\ Len(q.rows) = IF Cardinality(T) < HistoryLimit
                                THEN Cardinality(T) ELSE HistoryLimit
               /\ R \subseteq T
               /\ \A m \in R, x \in T \ R : x.created_at < m.created_at
               /\ \A i, j \in 1 .. Len(q.rows) :
                     i < j => q.rows[i].created_at < q.rows[j].created_at

(* C6: round trip: once a chat request has appended its Turn, a fetch of the
   conversation's messages with a limit of 1 returns exactly that Turn. *)
AppendThenFetchOneReturnsIt ==
    \A r \in Reqs :
        LET q == reqs[r]
            cid == q.current_conversation_id
        IN  (q.op = "chat" /\ q.pc = "done" /\ q.status = 200)
            => SelectMessages(chat_messages, cid, 1, 0) = <<MessageRow(q, cid)>>

(* C7: clear_conversation or update_conversation_title on a conversation the
   caller does not own, or that does not exist, is answered 404 by its
   ownership query (500 only when that query itself raises), the request ends
   there, and no row of either table changes. *)
NonOwnerClearOrTitleRejected ==
    [][\A r \in Reqs :
        LET q == reqs[r]
            n == reqs'[r]
        IN  /\ (q.pc = "idle" /\ n.op \in {"clear", "title"}
                /\ NotOwnedBy(n.conversation_id, n.user))
               => /\ n.pc = "done"
                  /\ n.status = 404 \/ (n.status = 500 /\ n.exc = "database")
                  /\ store' = store
            /\ (q.op \in {"clear", "title"} /\ q.pc = "done" /\ n # q)
               => (n = IdleReq /\ store' = store)
      ]_vars

ClearByNonOwnerRejected ==
    \E r \in Reqs :
        LET q == reqs[r]
        IN  /\ q.op = "clear" /\ q.pc = "done" /\ q.status = 404
            /\ OwnedByOther(q.conversation_id, q.user)
            /\ Turns(q.conversation_id) # {}

(* C8: clear is idempotent: a successful clear leaves the conversation with
   zero Turns, and a clear by the owner that directly follows a successful
   clear of the same conversation succeeds again (unless the database itself
   fails) and leaves zero Turns. *)
ClearIsIdempotent ==
    \A r \in Reqs :
        LET q == reqs[r]
            cid == q.conversation_id
        IN  (q.op = "clear" /\ q.pc = "done")
            => /\ q.status = 200 => Turns(cid) = {}
               /\ (prev = cid /\ Exists(cid) /\ conversations[cid].user_id = q.user
                   /\ q.exc # "database")
                  => (q.status = 200 /\ Turns(cid) = {})

ClearedTwiceInARow ==
    \E r \in Reqs :
        LET q == reqs[r]
        IN  /\ q.op = "clear" /\ q.pc = "done" /\ q.status = 200
            /\ prev = q.conversation_id

(* C9: a clear removes Turns of its target conversation only and keeps every
   Conversation row with its id, owner and title (only the target's
   updated_at moves); when it succeeds the target still exists and has no
   Turn left. *)
ClearRemovesTurnsKeepsConversation ==
    [][\A r \in Reqs :
        LET q == reqs[r]
            n == reqs'[r]
            cid == q.conversation_id
        IN  (q.op = "clear" /\ q.pc \notin {"idle", "done"} /\ n # q)
            => /\ DOMAIN conversations' = DOMAIN conversations
               /\ \A c \in DOMAIN conversations :
                     /\ conversations'[c].user_id = conversations[c].user_id
                     /\ conversations'[c].title = conversations[c].title
                     /\ conversations'[c].created_at = conversations[c].created_at
                     /\ c # cid => conversations'[c] = conversations[c]
               /\ chat_messages' \subseteq chat_messages
               /\ \A m \in chat_messages \ chat_messages' : m.conversation_id = cid
               /\ n.status = 200
                  => /\ cid \in DOMAIN conversations'
                     /\ {m \in chat_messages' : m.conversation_id = cid} = {}
      ]_vars

ClearedWhileOtherKeepsTurns ==
    \E r \in Reqs :
        LET q == reqs[r]
        IN  /\ q.op = "clear" /\ q.pc = "done" /\ q.status = 200
            /\ Exists(q.conversation_id) /\ Turns(q.conversation_id) = {}
            /\ \E c \in DOMAIN conversations :
                  c # q.conversation_id /\ Turns(c) # {}

(* C10: both delete handlers validate ownership before any removal: a delete
   by a caller who does not own the conversation is rejected and removes
   nothing, and a delete that succeeds has removed the Conversation and all
   of its Turns. *)
DeleteRemovesConversationAndTurns ==
    [][\A r \in Reqs :
        LET q == reqs[r]
            n == reqs'[r]
            cid == q.conversation_id
        IN  /\ (q.pc = "idle" /\ n.op \in {"delete", "main_delete"}
                /\ NotOwnedBy(n.conversation_id, n.user))
               => (n.pc = "done" /\ n.status # 200 /\ store' = store)
            /\ (q.op \in {"delete", "main_delete"} /\ q.pc \notin {"idle", "done"}
                /\ n.status = 200)
               => /\ cid \notin DOMAIN conversations'
                  /\ {m \in chat_messages' : m.conversation_id = cid} = {}
      ]_vars

----------------------------------------------------------------------------
(* C11: the agent name the chat flow selects, returns as agent_name and
   stores on the Turn is one of the routable names (prompt_infos) or the
   default agent, whatever label the classifier outputs. *)
AgentNameIsRoutable ==
    /\ \A r \in Reqs :
          (reqs[r].op = "chat" /\ reqs[r].timestamp # 0)
          => reqs[r].agent_name \in RoutableNames \cup {DefaultAgent}
    /\ \A m \in chat_messages : m.agent_name \in RoutableNames \cup {DefaultAgent}

AnsweredUnderRoutedName ==
    \E r \in Reqs :
        /\ reqs[r].op = "chat" /\ reqs[r].pc = "done" /\ reqs[r].status = 200
        /\ reqs[r].route = RouteDefault
        /\ \E m \in TurnOf(reqs[r]) : m.agent_name = DefaultAgent
        /\ \E m \in chat_messages : m.agent_name = "Market Analyst"

(* C12: a routing failure never aborts the request: when the classification
   call fails, its output does not parse into a known destination label, or
   it names no destination, the request is not answered with an error because
   of it, and the default agent answers. *)
RoutingFailureFallsBackToDefault ==
    \A r \in Reqs :
        LET q == reqs[r]
        IN  (q.op = "chat"
             /\ \/ q.route \in {RouteCallFailed, RouteUnparsable, RouteDefault}
                \/ (q.route # "none" /\ q.route \notin RoutableNames))
            => /\ q.exc # "routing"
               /\ q.timestamp # 0 => q.agent_name = DefaultAgent

(* C13: when the generation capability raises during the chat request of an
   authorized caller, the request is still answered normally, with a text in
   the message field, and a Turn recording the user message is appended. *)
GenerationFailureStillReplies ==
    \A r \in Reqs :
        LET q == reqs[r]
        IN  (q.op = "chat" /\ q.pc = "done" /\ q.user \in Users
             /\ q.exc = "generation")
            => /\ q.status = 200
               /\ q.agent_response # <<>>
               /\ \E m \in TurnOf(q) : m.user_message = q.message

(* C14: every tool returns a text for every string argument and every outcome
   of its external call, never raising; a third-party failure or a malformed
   argument (text that is not JSON, or JSON of another shape than the tool's
   input: an object, for generate_performance_chart a list of dated values)
   yields an explanatory error text. *)
ToolsAnswerFailuresWithErrorText ==
    \A i \in 1 .. Len(calls) :
        LET c == calls[i]
            malformed ==
                /\ c.fn \in JsonTools
                /\ \/ ~c.argument.parses
                   \/ c.argument.type #
                        (IF c.fn = "generate_performance_chart" THEN "list" ELSE "dict")
            failed ==
                \/ c.fn = "search_financial_news"
                      /\ c.outcome \in NewsFailures \cup {"not configured"}
                \/ c.fn = "get_stock_price" /\ c.outcome \in QuoteFailures
        IN  /\ c.result.kind = "return"
            /\ (malformed \/ failed) => c.result.error

(* C15: get_current_user returns a verified user or rejects with 401 on every
   path, so a chat request either starts its body as the user its token was
   issued to, or, with a missing or invalid credential, is answered 401
   before any history read, generation call or write; a request answered 401
   does nothing more. *)
UnauthenticatedChatRejectedFirst ==
    [][\A r \in Reqs :
        LET q == reqs[r]
            n == reqs'[r]
            valid == /\ n.authorization # NoAuthorization
                     /\ StartsWithBearer(n.authorization)
                     /\ TokenUser(TokenOf(n.authorization)) # NoUser
        IN  /\ (q.pc = "idle" /\ n.pc # "idle")
               => /\ \/ n.pc = "done" /\ n.status = 401
                     \/ /\ n.pc = "get_chat_history"
                        /\ n.user \in Users
                        /\ n.user = TokenUser(TokenOf(n.authorization))
                  /\ ~valid => (n.pc = "done" /\ n.status = 401)
                  /\ store' = store
                  /\ n.history = <<>> /\ n.rows = <<>> /\ n.agent_response = <<>>
            /\ (q.pc = "done" /\ q.status = 401 /\ n # q)
               => (n = IdleReq /\ store' = store)
      ]_vars

ExpiredTokenRejected ==
    \E r \in Reqs :
        LET q == reqs[r]
        IN  /\ q.op = "chat" /\ q.pc = "done" /\ q.status = 401
            /\ StartsWithBearer(q.authorization)
            /\ Exists(q.conversation_id) /\ Turns(q.conversation_id) # {}
            /\ q.history = <<>> /\ TurnOf(q) = {}

(* C16: a failing history fetch does not abort the chat request: the read
   step of every chat request ends with the request going on to generation,
   holding either the conversation's rendered history or, when the read
   failed, the empty history. *)
HistoryFailureGivesEmptyHistory ==
    [][\A r \in Reqs :
        LET q == reqs[r]
            n == reqs'[r]
        IN  (q.pc = "idle" /\ n.op = "chat")
            => /\ n.pc = "invoke" /\ n.status = 0 /\ n.exc = "none"
               /\ \/ n.history = <<>> /\ n.rows = <<>>
                  \/ /\ n.rows = HistoryRows(chat_messages, n.conversation_id)
                     /\ n.history = get_chat_history(chat_messages, n.conversation_id)
               /\ store' = store
      ]_vars

AnsweredAfterFailedHistoryRead ==
    \E r \in Reqs :
        LET q == reqs[r]
        IN  /\ q.op = "chat" /\ q.pc = "done" /\ q.status = 200
            /\ q.history = <<>>
            /\ \E m \in Turns(q.conversation_id) : m.created_at < q.timestamp
            /\ TurnOf(q) # {}

(* C17: a failing persistence write after the reply has been generated does
   not turn the response into a failure: a chat request that holds a
   generated reply is answered with it. *)
WriteFailureStillReturnsReply ==
    \A r \in Reqs :
        LET q == reqs[r]
        IN  (q.op = "chat" /\ q.pc = "done" /\ q.agent_response # <<>>)
            => (q.status = 200 /\ q.exc = "none")

(* C18: a chat request without a conversation_id creates exactly one
   Conversation, owned by the caller, and when it succeeds that conversation
   holds exactly one Turn, the one with the caller's message, and its id is
   the one returned; a chat request with a conversation_id creates no
   Conversation and returns the id it was given. *)
NewChatCreatesOneConversation ==
    [][\A r \in Reqs :
        LET q == reqs[r]
            n == reqs'[r]
            new == n.current_conversation_id
            created == DOMAIN conversations' \ DOMAIN conversations
        IN  (q.op = "chat" /\ q.pc \notin {"idle", "done"} /\ n # q)
            => /\ DOMAIN conversations \subseteq DOMAIN conversations'
               /\ IF q.pc = "insert_conversation" /\ n.pc # "done"
                  THEN /\ q.conversation_id = NoConv
                       /\ created = {new}
                       /\ conversations'[new].user_id = q.user
                  ELSE created = {}
               /\ (n.pc = "done" /\ n.status = 200)
                  => IF q.conversation_id = NoConv
                     THEN /\ new \in DOMAIN conversations'
                          /\ conversations'[new].user_id = q.user
                          /\ chat_messages' \ chat_messages = {MessageRow(n, new)}
                          /\ {m \in chat_messages' : m.conversation_id = new}
                                = {MessageRow(n, new)}
                          /\ MessageRow(n, new).user_message = q.message
                     ELSE new = q.conversation_id
      ]_vars

SecondConversationCreatedByChat ==
    \E r \in Reqs :
        LET q == reqs[r]
        IN  /\ q.op = "chat" /\ q.pc = "done" /\ q.status = 200
            /\ q.conversation_id = NoConv
            /\ Exists(q.current_conversation_id)
            /\ Cardinality(Turns(q.current_conversation_id)) = 1
            /\ Cardinality(DOMAIN conversations) = 2

(* C19: the title of a conversation created by chat is its first user
   message when that has at most 50 characters, and otherwise the first 50
   characters of the message followed by "...". *)
TitleIsTruncatedFirstMessage ==
    \A c \in DOMAIN conversations :
        \A m \in Turns(c) :
            m.created_at = conversations[c].created_at
            => LET title == conversations[c].title
                   msg == m.user_message
               IN  IF Len(msg) <= 50 THEN title = msg
                   ELSE /\ Len(title) = 53
                        /\ \A i \in 1 .. 50 : title[i] = msg[i]
                        /\ \A i \in 51 .. 53 : title[i] = "."

LongFirstMessageTitled ==
    \E c \in DOMAIN conversations :
        \E m \in Turns(c) :
            /\ m.created_at = conversations[c].created_at
            /\ Len(m.user_message) > 50
            /\ Len(conversations[c].title) = 53

(* C20: get_agent_definition returns, for a key of AGENT_DEFINITIONS, that
   agent as declared (name, instructions and tool list); ERROR_AGENT for the
   name "error" and for no other name; DEFAULT_AGENT for every other name;
   and the catalog is as declared after any number of lookups. *)
CatalogLookupIsFaithful ==
    /\ AGENT_DEFINITIONS = AgentCatalog
    /\ \A i \in 1 .. Len(calls) :
          LET name == calls[i].argument
              agent == calls[i].result
          IN  calls[i].fn = "get_agent_definition"
              => /\ name \in DOMAIN AgentCatalog
                    => /\ agent.name = name
                       /\ agent.instructions = AgentCatalog[name].instructions
                       /\ agent.tools = AgentCatalog[name].tools
                       /\ agent = AgentCatalog[name]
                 /\ name = "error" <=> agent = ERROR_AGENT
                 /\ (name \notin DOMAIN AgentCatalog /\ name # "error")
                    => agent = DEFAULT_AGENT

KeyAndErrorLookedUp ==
    \E i, j \in 1 .. Len(calls) :
        /\ calls[i].fn = "get_agent_definition" /\ calls[i].argument = "tax_planner"
        /\ calls[i].result.display_name = "Tax Strategist"
        /\ calls[j].fn = "get_agent_definition" /\ calls[j].argument = "error"
        /\ calls[j].result = ERROR_AGENT

----------------------------------------------------------------------------
(* Two requests at once on different conversations.  Several server
   processes share the one database; the store holds alice's conversation 1
   and bob's conversation 2, each with one Turn, and each of the two requests
   is a chat, a clear or a delete that names its own conversation id. *)

PairConversations ==
    [c \in {1, 2} |->
        [user_id |-> IF c = 1 THEN "alice" ELSE "bob", title |-> <<"q">>,
         created_at |-> c, updated_at |-> c]]

PairMessages ==
    {[conversation_id |-> c, user_id |-> PairConversations[c].user_id,
      user_message |-> <<"q">>, ai_response |-> <<"a">>, context |-> NoContext,
      agent_name |-> "Market Analyst", created_at |-> c] : c \in {1, 2}}

(* the clock after the two Turns were written *)
PairNow == Cardinality(PairMessages) + 1

(* the conversation ids each request may name *)
PairTargets(r) == IF r = "r1" THEN {1} ELSE {2, UnknownConv}

PairInit ==
    /\ conversations = PairConversations
    /\ chat_messages = PairMessages
    /\ nextId = 3
    /\ now = PairNow
    /\ schema \in Schemas
    /\ reqs = [r \in Reqs |-> IdleReq]
    /\ served = 0
    /\ prev = NoConv
    /\ processes = 2
    /\ AGENT_DEFINITIONS = AgentCatalog
    /\ calls = <<>>

PairNext ==
    \E r \in Reqs :
        \/ chat_get_chat_history(r) /\ reqs'[r].conversation_id \in PairTargets(r)
        \/ chat_invoke(r)
        \/ chat_insert_message(r)
        \/ chat_update_conversation(r)
        \/ clear_verify(r) /\ reqs'[r].conversation_id \in PairTargets(r)
        \/ clear_delete_messages(r)
        \/ clear_update_conversation(r)
        \/ delete_verify(r) /\ reqs'[r].conversation_id \in PairTargets(r)
        \/ delete_delete_messages(r)
        \/ delete_delete_conversation(r)

SpecPair == PairInit /\ [][PairNext]_vars

(* One request run from its first line to its answer with nothing in
   between: the answered request, the store and the clock it can leave. *)
Outcome(q, convs, msgs, t) ==
    [req |-> q, conversations |-> convs, chat_messages |-> msgs, now |-> t]

(* chat on a named conversation, main.py 511-597 *)
chat_alone(convs, msgs, t, u, cid, m) ==
    LET q0 == [NewReq("chat", u, cid) EXCEPT !.message = m, !.pc = "invoke"]
        read == {q0, [q0 EXCEPT !.rows = HistoryRows(msgs, cid),
                                !.history = get_chat_history(msgs, cid)]}
    IN  UNION {
          {Outcome(Answer(q1, 500, "generation"), convs, msgs, t)} \cup
          UNION {
            LET q2 == [q1 EXCEPT !.agent_response = a,
                                 !.agent_name = AgentNameOf(d),
                                 !.timestamp = t,
                                 !.pc = "insert_message"]
                q3 == [q2 EXCEPT !.pc = "update_conversation"]
                inserted == msgs \cup {MessageRow(q2, cid)}
            IN  {Outcome(Answer(q2, 500, "database"), convs, msgs, t + 1)} \cup
                (IF InsertMessageRefused(convs, cid) THEN {}
                 ELSE {Outcome(Answer(q3, 500, "database"), convs, inserted, t + 1),
                       Outcome(Answer(q3, 200, "none"),
                               TouchConversation(convs, cid, t), inserted, t + 1)})
            : d \in ChatDestinations, a \in Replies}
          : q1 \in read}

(* clear_conversation, conversation_routes.py 177-210 *)
clear_alone(convs, msgs, t, u, cid) ==
    LET q0 == NewReq("clear", u, cid)
        q1 == [q0 EXCEPT !.pc = "delete_messages"]
        q2 == [q0 EXCEPT !.pc = "update_conversation"]
        cleared == DeleteMessages(msgs, cid)
    IN  {Outcome(Answer(q0, 500, "database"), convs, msgs, t)} \cup
        (IF ~OwnedConversation(convs, cid, u)
         THEN {Outcome(Answer(q0, 404, "http"), convs, msgs, t)}
         ELSE {Outcome(Answer(q1, 500, "database"), convs, msgs, t),
               Outcome(Answer(q2, 500, "database"), convs, cleared, t + 1),
               Outcome(Answer([q2 EXCEPT !.timestamp = t], 200, "none"),
                       TouchConversation(convs, cid, t), cleared, t + 1)})

(* delete_conversation, conversation_routes.py 141-174 *)
delete_alone(convs, msgs, t, u, cid) ==
    LET q0 == NewReq("delete", u, cid)
        q1 == [q0 EXCEPT !.pc = "delete_messages"]
        q2 == [q0 EXCEPT !.pc = "delete_conversation"]
        cleared == DeleteMessages(msgs, cid)
    IN  {Outcome(Answer(q0, 500, "database"), convs, msgs, t)} \cup
        (IF ~OwnedConversation(convs, cid, u)
         THEN {Outcome(Answer(q0, 404, "http"), convs, msgs, t)}
         ELSE {Outcome(Answer(q1, 500, "database"), convs, msgs, t),
               Outcome(Answer(q2, 500, "database"), convs, cleared, t)} \cup
              (IF DeleteConversationRefused(cleared, cid) THEN {}
               ELSE {Outcome(Answer(q2, 200, "none"),
                             RemoveConversation(convs, cid),
                             MessagesAfterConversationDelete(cleared, cid), t)}))

(* the request q, with its arguments, run alone on a store *)
Alone(q, convs, msgs, t) ==
    IF q.op = "chat"
    THEN chat_alone(convs, msgs, t, q.user, q.conversation_id, q.message)
    ELSE IF q.op = "clear"
         THEN clear_alone(convs, msgs, t, q.user, q.conversation_id)
         ELSE delete_alone(convs, msgs, t, q.user, q.conversation_id)

(* the two requests run one after the other, first one first *)
OneAfterTheOther(first, second) ==
    UNION {{<<o1, o2>> : o2 \in Alone(reqs[second], o1.conversations,
                                      o1.chat_messages, o1.now)}
           : o1 \in Alone(reqs[first], PairConversations, PairMessages, PairNow)}

----------------------------------------------------------------------------
(* Listing a caller's conversations: list_conversations,
   conversation_routes.py 98-138, and get_conversations, main.py 628-639.
   The store is any store of up to MaxConvs conversations with up to two
   Turns each. *)

PreviewMax == 100

(* a key the row does not have, and Python's None *)
NoKey == <<"<no key>">>
NoKeyName == "<no key>"
PyNone == <<"<None>">>
PyNoneName == "<None>"

ListLimits == {1, 20}
ListOffsets == {0, 1}

(* reply and agent name of the Turns the store may hold *)
ListKinds ==
    <<[ai_response |-> <<"a">>, agent_name |-> "Market Analyst"],
      [ai_response |-> Text(PreviewMax), agent_name |-> "General Advisor"],
      [ai_response |-> Text(PreviewMax + 1), agent_name |-> "Tax Optimizer"]>>

ListTurn(cid, uid, kind, t) ==
    [conversation_id |-> cid, user_id |-> uid, user_message |-> <<"q">>,
     ai_response |-> ListKinds[kind].ai_response, context |-> NoContext,
     agent_name |-> ListKinds[kind].agent_name, created_at |-> t]

(* the conversations ids, owned as owner says; conversation c was created at
   time c, its first Turn (kind first[c], 0 for none) was written then, its
   second Turn (kind second[c]) at a later time, in the order of the ids or
   in the reverse order; updated_at is the time of the last write *)
ListStore(ids, owner, first, second, reverse) ==
    LET late(c) == IF reverse THEN 2 * MaxConvs + 1 - c ELSE MaxConvs + c
        turns(c) ==
            {ListTurn(c, owner[c], first[c], c) : x \in {1} \cap {Min(first[c], 1)}}
            \cup {ListTurn(c, owner[c], second[c], late(c))
                    : x \in {1} \cap {Min(second[c], 1)}}
    IN  [conversations |->
            [c \in ids |->
                [user_id |-> owner[c], title |-> <<"t">>, created_at |-> c,
                 updated_at |-> IF second[c] > 0 THEN late(c) ELSE c]],
         chat_messages |-> UNION {turns(c) : c \in ids}]

ListInit ==
    /\ \E ids \in SUBSET (1 .. MaxConvs), owner \in [1 .. MaxConvs -> Users],
          first \in [1 .. MaxConvs -> 0 .. Len(ListKinds)],
          second \in [1 .. MaxConvs -> 0 .. Len(ListKinds)],
          reverse \in BOOLEAN :
          LET s == ListStore(ids, owner, first, second, reverse)
          IN  /\ conversations = s.conversations
              /\ chat_messages = s.chat_messages
    /\ nextId = MaxConvs + 1
    /\ now = 2 * MaxConvs + 1
    /\ schema = "fk_restrict"
    /\ reqs = [r \in Reqs |-> IdleReq]
    /\ served = 0
    /\ prev = NoConv
    /\ processes = 1
    /\ AGENT_DEFINITIONS = AgentCatalog
    /\ calls = <<>>

(* select * from conversations where user_id = uid order by updated_at desc:
   the ids of the rows, in the order of the result *)
RECURSIVE OrderByUpdatedAtDesc(_, _)
OrderByUpdatedAtDesc(convs, ids) ==
    IF ids = {} THEN <<>>
    ELSE LET c == CHOOSE x \in ids :
                    \A y \in ids : convs[x].updated_at >= convs[y].updated_at
         IN  <<c>> \o OrderByUpdatedAtDesc(convs, ids \ {c})

ConversationsOf(convs, uid) ==
    OrderByUpdatedAtDesc(convs, {c \in DOMAIN convs : convs[c].user_id = uid})

Reverse(rows) == [i \in 1 .. Len(rows) |-> rows[Len(rows) + 1 - i]]

(* select ai_response, agent_name from chat_messages where conversation_id
   = cid order by created_at desc limit 1 *)
LastMessage(msgs, cid) ==
    LimitOffset(Reverse(OrderByCreatedAt(MessagesOf(msgs, cid))), 1, 0)

(* conversation_routes.py line 128 *)
Preview(ai_response) ==
    IF Len(ai_response) > PreviewMax
    THEN SubSeq(ai_response, 1, PreviewMax) \o <<".", ".", ".">>
    ELSE ai_response

(* a row of the conversations table as select * returns it *)
ConversationRow(convs, cid) ==
    [id |-> cid, user_id |-> convs[cid].user_id, title |-> convs[cid].title,
     created_at |-> convs[cid].created_at, updated_at |-> convs[cid].updated_at,
     last_message |-> NoKey, agent_name |-> NoKeyName]

(* lines 117-133 for one conversation; failed: the read of its last message
   raised *)
WithLastMessage(conv, msgs, failed) ==
    LET last_msg == LastMessage(msgs, conv.id)
    IN  IF failed
        THEN [conv EXCEPT !.last_message = PyNone, !.agent_name = PyNoneName]
        ELSE IF last_msg # <<>>
             THEN [conv EXCEPT !.last_message = Preview(last_msg[1].ai_response),
                               !.agent_name = last_msg[1].agent_name]
             ELSE conv

(* list_conversations, conversation_routes.py 98-138 *)
list_conversations(r) ==
    /\ Accept(r)
    /\ \E u \in Users, limit \in ListLimits, offset \in ListOffsets, fail \in BOOLEAN :
          LET q == [NewReq("list", u, NoConv) EXCEPT !.limit = limit, !.offset = offset]
              listed == LimitOffset(ConversationsOf(conversations, u), limit, offset)
          IN  IF fail THEN SetReq(r, Answer(q, 500, "database"))
              ELSE \E failed \in SUBSET {listed[i] : i \in 1 .. Len(listed)} :
                      SetReq(r, Answer([q EXCEPT !.rows =
                          [i \in 1 .. Len(listed) |->
                              WithLastMessage(ConversationRow(conversations, listed[i]),
                                              chat_messages, listed[i] \in failed)]],
                          200, "none"))
    /\ UNCHANGED <<conversations, chat_messages, nextId, now, schema, prev, processes, library>>

(* get_conversations, main.py 628-639 *)
get_conversations(r) ==
    /\ Accept(r)
    /\ \E u \in Users, fail \in BOOLEAN :
          LET q == NewReq("main_list", u, NoConv)
              listed == ConversationsOf(conversations, u)
          IN  SetReq(r, IF fail THEN Answer(q, 500, "database")
                        ELSE Answer([q EXCEPT !.rows =
                                [i \in 1 .. Len(listed) |->
                                    ConversationRow(conversations, listed[i])]],
                            200, "none"))
    /\ UNCHANGED <<conversations, chat_messages, nextId, now, schema, prev, processes, library>>

ListNext ==
    \E r \in Reqs :
        \/ list_conversations(r)
        \/ get_conversations(r)
        \/ Finish(r)

SpecList == ListInit /\ [][ListNext]_vars

----------------------------------------------------------------------------
(* The routes setup_routes registers, conversation_routes.py 40-78.  Each
   endpoint is a lambda; FastAPI resolves the dependencies the lambda's own
   parameters declare, then calls the lambda, which calls the handler. *)

Routes ==
    {"GET /", "GET /{conversation_id}", "DELETE /{conversation_id}",
     "POST /{conversation_id}/clear", "PUT /{conversation_id}/title",
     "GET /{conversation_id}/messages"}

(* the lambdas with a parameter user=Depends(get_current_user), lines 49, 76 *)
DeclaresUser(route) == route \in {"GET /", "GET /{conversation_id}/messages"}

(* the object Depends(get_current_user) the other lambdas pass as user,
   lines 55, 60, 65, 70 *)
DependsObject == "Depends(get_current_user)"

(* the dependencies of the endpoint are resolved: get_current_user runs when
   the lambda declares it, and its HTTPException answers the request *)
route_dependencies(r) ==
    /\ Accept(r)
    /\ \E route \in Routes, authorization \in Headers, cid \in NamedIds :
          \E response \in AuthOutcomes(TokenOf(authorization)) :
             LET res == IF DeclaresUser(route)
                        THEN get_current_user(authorization, response)
                        ELSE [status_code |-> 200, user |-> NoUser, detail |-> ""]
                 q == [NewReq(route, res.user, cid) EXCEPT
                          !.authorization = authorization]
             IN  SetReq(r, IF res.status_code = 401 THEN Answer(q, 401, "http")
                           ELSE [q EXCEPT !.pc = "endpoint"])
    /\ UNCHANGED <<conversations, chat_messages, nextId, now, schema, prev, processes, library>>

(* the lambda calls the handler with its user argument; the handler is a
   coroutine function and the lambda does not await it, so the endpoint
   returns the coroutine, which cannot be made a response *)
route_endpoint(r) ==
    /\ reqs[r].op \in Routes /\ reqs[r].pc = "endpoint"
    /\ LET q == reqs[r]
           user == IF DeclaresUser(q.op) THEN q.user ELSE DependsObject
       IN  SetReq(r, Answer([q EXCEPT !.user = user], 500, "coroutine"))
    /\ UNCHANGED <<conversations, chat_messages, nextId, now, schema, served, prev, processes, library>>

RoutesNext ==
    \E r \in Reqs :
        \/ route_dependencies(r)
        \/ route_endpoint(r)
        \/ Finish(r)

SpecRoutes == ToolsInit /\ [][RoutesNext]_vars

----------------------------------------------------------------------------
(* The history a chat request renders from stored Turns, main.py 805-826,
   over conversations whose Turns may hold an empty user message (ChatInput
   accepts the empty string) or an empty reply. *)

MaxHistoryTurns == 2

HistoryMsgs == {<<>>, <<"q">>}
HistoryReplies == {<<>>, <<"a">>}

(* alice's conversation 1 with n Turns written at times 1 .. n *)
HistoryInit ==
    /\ \E n \in 0 .. MaxHistoryTurns :
          \E um \in [1 .. n -> HistoryMsgs], ar \in [1 .. n -> HistoryReplies] :
             /\ chat_messages =
                    {[conversation_id |-> 1, user_id |-> "alice",
                      user_message |-> um[t], ai_response |-> ar[t],
                      context |-> NoContext, agent_name |-> DefaultAgent,
                      created_at |-> t] : t \in 1 .. n}
             /\ conversations =
                    [c \in {1} |-> [user_id |-> "alice", title |-> <<"t">>,
                                    created_at |-> 1, updated_at |-> n + 1]]
             /\ now = n + 2
    /\ nextId = 2
    /\ schema = "fk_restrict"
    /\ reqs = [r \in Reqs |-> IdleReq]
    /\ served = 0
    /\ prev = NoConv
    /\ processes = 1
    /\ AGENT_DEFINITIONS = AgentCatalog
    /\ calls = <<>>

HistoryNext ==
    \E r \in Reqs :
        \/ chat_get_chat_history(r) /\ reqs'[r].conversation_id # NoConv
        \/ chat_invoke(r)
        \/ chat_insert_message(r)
        \/ chat_update_conversation(r)
        \/ Finish(r)

SpecHistory == HistoryInit /\ [][HistoryNext]_vars

----------------------------------------------------------------------------
(* C21: every name the system references exists in its static catalog: each
   tool name in an agent's tools list is the name of a registered Tool, and
   each agent name produced by routing or stored on a Turn is a key of the
   agent catalog, so that its lookup returns that agent and not the default
   for unknown names. *)
ReferencedNamesAreInCatalogs ==
    /\ \A a \in DOMAIN AGENT_DEFINITIONS :
          \A i \in 1 .. Len(AGENT_DEFINITIONS[a].tools) :
              AGENT_DEFINITIONS[a].tools[i] \in RegisteredTools
    /\ \A m \in chat_messages :
          /\ m.agent_name \in DOMAIN AGENT_DEFINITIONS
          /\ get_agent_definition(AGENT_DEFINITIONS, m.agent_name) # DEFAULT_AGENT
    /\ \A r \in Reqs :
          (reqs[r].op = "chat" /\ reqs[r].timestamp # 0)
          => reqs[r].agent_name \in DOMAIN AGENT_DEFINITIONS

(* C22: concurrent requests for different conversations do not interfere:
   whatever the interleaving of the database calls of two chat, clear or
   delete requests that name different conversation ids, once both are
   answered the store (every conversation's Turns, title and updated_at) and
   both responses are those of running the two requests one after the other
   in some order. *)
DifferentConversationsDoNotInterfere ==
    (\A r \in Reqs : reqs[r].pc = "done")
    => \E first \in Reqs, second \in Reqs :
          /\ first # second
          /\ \E pair \in OneAfterTheOther(first, second) :
                /\ pair[1].req = reqs[first]
                /\ pair[2].req = reqs[second]
                /\ pair[2].conversations = conversations
                /\ pair[2].chat_messages = chat_messages
                /\ pair[2].now = now

(* a chat on conversation 1 and a clear of conversation 2 were in progress
   together and both succeeded *)
ChatAndClearBothAnswered ==
    /\ reqs["r1"].op = "chat" /\ reqs["r1"].pc = "done" /\ reqs["r1"].status = 200
    /\ reqs["r2"].op = "clear" /\ reqs["r2"].pc = "done" /\ reqs["r2"].status = 200
    /\ reqs["r1"].timestamp < reqs["r2"].timestamp
    /\ Cardinality(Turns(1)) = 2 /\ Turns(2) = {}

(* C23: listing conversations returns only conversations owned by the caller,
   whatever the store holds, and for each listed conversation that has Turns
   the preview and the agent name are those of its most recent Turn. *)
ListingIsOwnedWithLastTurn ==
    \A r \in Reqs :
        LET q == reqs[r]
        IN  (q.op \in {"list", "main_list"} /\ q.pc = "done" /\ q.status = 200)
            => \A i \in 1 .. Len(q.rows) :
                  LET conv == q.rows[i]
                  IN  /\ conv.user_id = q.user
                      /\ Turns(conv.id) # {}
                         => \E m \in Turns(conv.id) :
                               /\ \A o \in Turns(conv.id) : o.created_at <= m.created_at
                               /\ conv.last_message = Preview(m.ai_response)
                               /\ conv.agent_name = m.agent_name

(* C24: a Turn is never changed after it is appended: in every step of a
   chat, create, clear, delete, title update or read, each stored Turn stays
   in the store with its user message, reply, agent name, context and
   created_at, unless the step is a step of a clear or delete request that
   names the Turn's own conversation. *)
TurnsAreNeverMutated ==
    [][\A m \in chat_messages :
          \/ m \in chat_messages'
          \/ \E r \in Reqs :
                /\ reqs[r].op \in {"clear", "delete", "main_delete"}
                /\ reqs[r].conversation_id = m.conversation_id
                /\ reqs'[r] # reqs[r]]_vars

(* a conversation got its first Turn, then its title was updated and its
   Turns were read, and the Turn is still stored as it was read *)
TitleUpdatedAndReadWithTurnsKept ==
    \E r \in Reqs, c \in DOMAIN conversations :
        /\ reqs[r].op = "messages" /\ reqs[r].pc = "done" /\ reqs[r].status = 200
        /\ reqs[r].conversation_id = c
        /\ conversations[c].title = <<"t">>
        /\ Len(reqs[r].rows) = 1
        /\ Turns(c) = {reqs[r].rows[1]}

(* C25: every route registered by setup_routes resolves the caller through
   get_current_user and passes that user to its handler: a request without a
   valid credential is answered 401 and reaches no handler, and the user a
   handler is called with is the user the request's token was issued to. *)
RoutesAuthenticateCaller ==
    \A r \in Reqs :
        LET q == reqs[r]
            valid == /\ q.authorization # NoAuthorization
                     /\ StartsWithBearer(q.authorization)
                     /\ TokenUser(TokenOf(q.authorization)) # NoUser
        IN  (q.op \in Routes /\ q.pc # "idle")
            => /\ ~valid => (q.pc = "done" /\ q.status = 401)
               /\ (q.pc = "done" /\ q.status # 401)
                  => /\ q.user \in Users
                     /\ q.user = TokenUser(TokenOf(q.authorization))

(* C26: the history rendered for the agent alternates user and assistant
   messages, starting with a user message, in oldest-first Turn order: for
   the rows a chat request has read, the history holds the user message and
   then the reply of each row, Turns with an empty user message or an empty
   reply included. *)
HistoryAlternates ==
    \A r \in Reqs :
        LET q == reqs[r]
        IN  (q.op = "chat" /\ q.pc # "idle")
            => /\ Len(q.history) = 2 * Len(q.rows)
               /\ \A i \in 1 .. Len(q.rows) :
                     /\ q.history[2 * i - 1] = <<"human", q.rows[i].user_message>>
                     /\ q.history[2 * i] = <<"ai", q.rows[i].ai_response>>
               /\ \A i \in 1 .. Len(q.rows) - 1 :
                     q.rows[i].created_at <= q.rows[i + 1].created_at

(* C27: generate_conversation_title never returns a title longer than 50
   characters (the placeholder for the empty message, the message itself up
   to 50 characters, otherwise its first 47 characters and "..."), and for
   every first message it returns the title that chat stores for the new
   conversation. *)
GeneratedTitleIsStoredTitle ==
    \A c \in DOMAIN conversations :
        \A m \in Turns(c) :
            m.created_at = conversations[c].created_at
            => LET title == generate_conversation_title(m.user_message)
               IN  /\ Len(title) <= 50
                   /\ m.user_message = <<>> => title = TitlePlaceholder
                   /\ (m.user_message # <<>> /\ Len(m.user_message) <= 50)
                      => title = m.user_message
                   /\ Len(m.user_message) > 50
                      => /\ Len(title) = 50
                         /\ \A i \in 1 .. 47 : title[i] = m.user_message[i]
                         /\ \A i \in 48 .. 50 : title[i] = "."
                   /\ conversations[c].title = title

(* C28: a chat request writes nothing before generation has succeeded: no
   step of a chat request up to and including generation changes the store,
   so a request answered with a routing or generation failure has created no
   Conversation, inserted no Turn and changed no updated_at; and when, for a
   new conversation, the conversation insert has succeeded and the insert of
   the Turn fails, the request is answered as failed and the store keeps the
   new Conversation with zero Turns. *)
ChatWritesNothingBeforeGeneration ==
    [][\A r \in Reqs :
        LET q == reqs[r]
            n == reqs'[r]
            cid == q.current_conversation_id
        IN  (n # q /\ (q.op = "chat" \/ (q.pc = "idle" /\ n.op = "chat")))
            => /\ q.pc \in {"idle", "get_chat_history", "route", "generate"}
                  => store' = store
               /\ (n.pc = "done" /\ n.exc \in {"routing", "generation"})
                  => (n.status = 500 /\ store' = store /\ n.timestamp = 0)
               /\ (q.pc = "insert_first_message" /\ chat_messages' = chat_messages)
                  => /\ n.pc = "done" /\ n.status = 500
                     /\ q.conversation_id = NoConv
                     /\ cid \in DOMAIN conversations'
                     /\ MessagesOf(chat_messages', cid) = {}
      ]_vars

(* a chat without conversation_id was answered 500 after its conversation was
   inserted: the conversation is stored with zero Turns *)
FailedFirstTurnLeavesEmptyConversation ==
    \E r \in Reqs :
        LET q == reqs[r]
        IN  /\ q.op = "chat" /\ q.pc = "done" /\ q.status = 500
            /\ q.conversation_id = NoConv
            /\ q.current_conversation_id # NoConv
            /\ Exists(q.current_conversation_id)
            /\ Turns(q.current_conversation_id) = {}

(* C29: within one successful chat request a single timestamp is used
   everywhere: when the request is answered 200, the Turn it appended has
   the response's created_at as its created_at, the conversation it wrote has
   it as updated_at, and a conversation it created has it as created_at
   too. *)
OneTimestampPerChat ==
    \A r \in Reqs :
        LET q == reqs[r]
            cid == q.current_conversation_id
        IN  (q.op = "chat" /\ q.pc = "done" /\ q.status = 200)
            => /\ q.timestamp # 0
               /\ MessageRow(q, cid) \in chat_messages
               /\ \A m \in Turns(cid) :
                     m.created_at >= q.timestamp => m = MessageRow(q, cid)
               /\ Exists(cid) => conversations[cid].updated_at = q.timestamp
               /\ q.conversation_id = NoConv
                  => (Exists(cid) /\ conversations[cid].created_at = q.timestamp)

(* a chat on an existing conversation was answered 200: its second Turn and
   the conversation's updated_at carry the request's timestamp *)
SecondTurnAnswered ==
    \E r \in Reqs :
        LET q == reqs[r]
        IN  /\ q.op = "chat" /\ q.pc = "done" /\ q.status = 200
            /\ q.conversation_id # NoConv /\ Exists(q.conversation_id)
            /\ Cardinality(Turns(q.conversation_id)) = 2
            /\ conversations[q.conversation_id].created_at < q.timestamp
            /\ conversations[q.conversation_id].updated_at = q.timestamp

(* C30: conversation_routes.delete_conversation removes the conversation's
   Turns before it removes the conversation row: in one execution on its own,
   the step that removes the Turns leaves the conversations table alone, the
   step that removes the row finds and leaves no Turn of the conversation, so
   the conversation is never gone while Turns of it remain; and when the
   removal of the row fails the request is answered 500 and the conversation
   remains, with zero Turns. *)
DeleteRemovesTurnsFirst ==
    [][\A r \in Reqs :
        LET q == reqs[r]
            n == reqs'[r]
            cid == q.conversation_id
        IN  (q.op = "delete" /\ n # q /\ q.pc \in {"delete_messages", "delete_conversation"})
            => /\ cid \in DOMAIN conversations
               /\ q.pc = "delete_messages"
                  => /\ conversations' = conversations
                     /\ n.pc = "delete_conversation"
                        => MessagesOf(chat_messages', cid) = {}
                     /\ n.pc = "done"
                        => (n.status = 500 /\ chat_messages' = chat_messages)
               /\ q.pc = "delete_conversation"
                  => /\ MessagesOf(chat_messages, cid) = {}
                     /\ chat_messages' = chat_messages
                     /\ n.pc = "done"
                     /\ \/ n.status = 200 /\ cid \notin DOMAIN conversations'
                        \/ n.status = 500 /\ conversations' = conversations
               /\ cid \notin DOMAIN conversations'
                  => MessagesOf(chat_messages', cid) = {}
      ]_vars

(* a delete of a conversation created by chat was answered 500 and the
   conversation is stored without Turns *)
DeleteFailedWithTurnsRemoved ==
    \E r \in Reqs :
        LET q == reqs[r]
        IN  /\ q.op = "delete" /\ q.pc = "done" /\ q.status = 500
            /\ Exists(q.conversation_id)
            /\ conversations[q.conversation_id].user_id = q.user
            /\ conversations[q.conversation_id].title = ChatTitle(<<"q">>)
            /\ Turns(q.conversation_id) = {}

====
